---- MODULE Spec2Model ----
(***************************************************************************)
(* Model of compute::dict::Dict<V> (src/src/compute/dict.rs): a map from   *)
(* u64 or string keys to values, with a cached lowest free number key      *)
(* that push uses to append.                                               *)
(*                                                                         *)
(* A Dict is a record [nums, strs, lowest_free].  The two BTreeMaps are    *)
(* functions whose DOMAIN is the key set; their iteration is the ascending *)
(* key order of BTreeMap.  Strings are sequences of bytes, so that the     *)
(* byte-wise lexicographic order of String is computed and not assumed.   *)
(* Option<T> is a sequence of length 0 (None) or 1 (Some).                 *)
(*                                                                         *)
(* u64 overflow of lowest_free needs 2^64 - 1 numeric entries, so number   *)
(* keys are bounded by MaxKey and the arithmetic never wraps.              *)
(***************************************************************************)
EXTENDS Integers, Sequences, FiniteSets, TLC

VARIABLES dict, pre, last, reuse, other, script, done, scan

vars == <<dict, pre, last, reuse, other, script, done, scan>>

----------------------------------------------------------------------------
(* Bounds *)

MaxKey == 2

EqMaxKey == 1

MaxLen == 3

PairMaxKey == 2

----------------------------------------------------------------------------
(* Inputs *)

NumKeys == 0 .. MaxKey

ValueSet == {"x", "y"}

\* "10", "2", "a b" as UTF-8 bytes
StrKeys == {<<49, 48>>, <<50>>, <<97, 32, 98>>}

None == <<>>

Some(v) == <<v>>

----------------------------------------------------------------------------
(* Keys *)

Num(n) == [tag |-> "Num", num |-> n]

Str(s) == [tag |-> "Str", str |-> s]

NoKey == [tag |-> "NoKey"]

KeySet == {Num(n) : n \in NumKeys} \cup {Str(s) : s \in StrKeys}

\* derived PartialEq of the key enums: same variant and same payload
KeyEq(a, b) ==
    /\ a.tag = b.tag
    /\ IF a.tag = "Num" THEN a.num = b.num ELSE a.str = b.str

\* byte-wise lexicographic order of str
RECURSIVE StrLess(_, _)
StrLess(s, t) ==
    IF t = <<>> THEN FALSE
    ELSE IF s = <<>> THEN TRUE
    ELSE IF s[1] # t[1] THEN s[1] < t[1]
    ELSE StrLess(Tail(s), Tail(t))

----------------------------------------------------------------------------
(* BTreeMap primitives *)

EmptyMap == <<>>

MapInsert(m, k, v) ==
    [j \in (DOMAIN m) \cup {k} |-> IF j = k THEN v ELSE m[j]]

MapRemove(m, k) == [j \in (DOMAIN m) \ {k} |-> m[j]]

MapGet(m, k) == IF k \in DOMAIN m THEN Some(m[k]) ELSE None

MinNum(S) == CHOOSE a \in S : \A b \in S : a <= b

MinStr(S) == CHOOSE a \in S : \A b \in S : a = b \/ StrLess(a, b)

\* BTreeMap<u64, V>::iter(): the pairs in ascending key order
RECURSIVE NumsOrder(_, _)
NumsOrder(m, S) ==
    IF S = {} THEN <<>>
    ELSE LET k == MinNum(S)
         IN  <<(<<k, m[k]>>)>> \o NumsOrder(m, S \ {k})

\* BTreeMap<String, V>::iter(): the pairs in ascending key order
RECURSIVE StrsOrder(_, _)
StrsOrder(m, S) ==
    IF S = {} THEN <<>>
    ELSE LET k == MinStr(S)
         IN  <<(<<k, m[k]>>)>> \o StrsOrder(m, S \ {k})

----------------------------------------------------------------------------
(* Dict *)

New == [nums |-> EmptyMap, strs |-> EmptyMap, lowest_free |-> 0]

\* len that counts the number entries only
DictLenNums(d) == Cardinality(DOMAIN d.nums)

DictLen(d) == Cardinality(DOMAIN d.nums) + Cardinality(DOMAIN d.strs)

IsEmpty(d) == DictLen(d) = 0

Nums(d) == NumsOrder(d.nums, DOMAIN d.nums)

Strs(d) == StrsOrder(d.strs, DOMAIN d.strs)

First(d) ==
    LET it == Nums(d)
    IN  IF it = <<>> THEN None ELSE Some(it[1])

\* last that calls next() where the code calls next_back()
LastNext(d) ==
    LET it == Nums(d)
    IN  IF it = <<>> THEN None ELSE Some(it[1])

Last(d) ==
    LET it == Nums(d)
    IN  IF it = <<>> THEN None ELSE Some(it[Len(it)])

Get(d, key) ==
    IF key.tag = "Num" THEN MapGet(d.nums, key.num)
    ELSE MapGet(d.strs, key.str)

\* the number a numeral-like string reads as
RECURSIVE ParseNum(_, _)
ParseNum(s, acc) ==
    IF s = <<>> THEN acc ELSE ParseNum(Tail(s), 10 * acc + (s[1] - 48))

IsNumeral(s) == s # <<>> /\ \A i \in 1 .. Len(s) : s[i] \in 48 .. 57

\* Insert that files a numeral-like string key under the number it reads as
InsertCoerce(d, key, value) ==
    IF key.tag = "Num"
    THEN [d EXCEPT !.nums = MapInsert(d.nums, key.num, value),
                   !.lowest_free = IF d.lowest_free = key.num
                                   THEN d.lowest_free + 1
                                   ELSE d.lowest_free]
    ELSE IF IsNumeral(key.str)
    THEN [d EXCEPT !.nums = MapInsert(d.nums, ParseNum(key.str, 0), value)]
    ELSE [d EXCEPT !.strs = MapInsert(d.strs, key.str, value)]

\* Insert that moves lowest_free past any key inserted at or above it
InsertRaiseMark(d, key, value) ==
    IF key.tag = "Num"
    THEN [d EXCEPT !.nums = MapInsert(d.nums, key.num, value),
                   !.lowest_free = IF d.lowest_free <= key.num
                                   THEN key.num + 1
                                   ELSE d.lowest_free]
    ELSE [d EXCEPT !.strs = MapInsert(d.strs, key.str, value)]

\* Insert that keeps the value of a key that is already present
InsertKeepOld(d, key, value) ==
    IF key.tag = "Num"
    THEN [d EXCEPT !.nums = IF key.num \in DOMAIN d.nums THEN d.nums
                            ELSE MapInsert(d.nums, key.num, value),
                   !.lowest_free = IF d.lowest_free = key.num
                                   THEN d.lowest_free + 1
                                   ELSE d.lowest_free]
    ELSE [d EXCEPT !.strs = IF key.str \in DOMAIN d.strs THEN d.strs
                            ELSE MapInsert(d.strs, key.str, value)]

\* Insert that advances lowest_free for string keys as well
InsertAnyAdvance(d, key, value) ==
    IF key.tag = "Num"
    THEN [d EXCEPT !.nums = MapInsert(d.nums, key.num, value),
                   !.lowest_free = IF d.lowest_free = key.num
                                   THEN d.lowest_free + 1
                                   ELSE d.lowest_free]
    ELSE [d EXCEPT !.strs = MapInsert(d.strs, key.str, value),
                   !.lowest_free = d.lowest_free + 1]

\* Insert that advances lowest_free only when the key was absent
InsertAdvanceIfNew(d, key, value) ==
    IF key.tag = "Num"
    THEN [d EXCEPT !.nums = MapInsert(d.nums, key.num, value),
                   !.lowest_free = IF d.lowest_free = key.num
                                      /\ key.num \notin DOMAIN d.nums
                                   THEN d.lowest_free + 1
                                   ELSE d.lowest_free]
    ELSE [d EXCEPT !.strs = MapInsert(d.strs, key.str, value)]

Insert(d, key, value) ==
    IF key.tag = "Num"
    THEN [d EXCEPT !.nums = MapInsert(d.nums, key.num, value),
                   !.lowest_free = IF d.lowest_free = key.num
                                   THEN d.lowest_free + 1
                                   ELSE d.lowest_free]
    ELSE [d EXCEPT !.strs = MapInsert(d.strs, key.str, value)]

\* Remove that leaves lowest_free alone
RemoveKeepMark(d, key) ==
    IF key.tag = "Num"
    THEN [dict |-> [d EXCEPT !.nums = MapRemove(d.nums, key.num)],
          ret  |-> MapGet(d.nums, key.num)]
    ELSE [dict |-> [d EXCEPT !.strs = MapRemove(d.strs, key.str)],
          ret  |-> MapGet(d.strs, key.str)]

\* Remove that looks the value up after taking the key out
RemoveRetAfter(d, key) ==
    IF key.tag = "Num"
    THEN [dict |-> [d EXCEPT !.lowest_free = IF d.lowest_free < key.num
                                             THEN d.lowest_free
                                             ELSE key.num,
                              !.nums = MapRemove(d.nums, key.num)],
          ret  |-> MapGet(MapRemove(d.nums, key.num), key.num)]
    ELSE [dict |-> [d EXCEPT !.strs = MapRemove(d.strs, key.str)],
          ret  |-> MapGet(MapRemove(d.strs, key.str), key.str)]

\* Remove that lowers lowest_free for string keys too, to the number the
\* key reads as
RemoveCoerce(d, key) ==
    IF key.tag = "Num"
    THEN [dict |-> [d EXCEPT !.lowest_free = IF d.lowest_free < key.num
                                             THEN d.lowest_free
                                             ELSE key.num,
                              !.nums = MapRemove(d.nums, key.num)],
          ret  |-> MapGet(d.nums, key.num)]
    ELSE [dict |-> [d EXCEPT !.strs = MapRemove(d.strs, key.str),
                              !.lowest_free =
                                  IF IsNumeral(key.str)
                                     /\ ParseNum(key.str, 0) < d.lowest_free
                                  THEN ParseNum(key.str, 0)
                                  ELSE d.lowest_free],
          ret  |-> MapGet(d.strs, key.str)]

\* returns the dictionary after the call and the returned Option<V>
Remove(d, key) ==
    IF key.tag = "Num"
    THEN [dict |-> [d EXCEPT !.lowest_free = IF d.lowest_free < key.num
                                             THEN d.lowest_free
                                             ELSE key.num,
                              !.nums = MapRemove(d.nums, key.num)],
          ret  |-> MapGet(d.nums, key.num)]
    ELSE [dict |-> [d EXCEPT !.strs = MapRemove(d.strs, key.str)],
          ret  |-> MapGet(d.strs, key.str)]

\* push that trusts lowest_free without scanning
PushScanTrust(nums, free) == free

\* push that looks one key ahead only
PushScanOnce(nums, free) == IF free \in DOMAIN nums THEN free + 1 ELSE free

\* the while loop of push: the value of lowest_free when it exits
RECURSIVE PushScan(_, _)
PushScan(nums, free) ==
    IF free \in DOMAIN nums THEN PushScan(nums, free + 1) ELSE free

\* the number of times the body of the while loop of push runs
RECURSIVE ScanIters(_, _)
ScanIters(nums, free) ==
    IF free \in DOMAIN nums THEN 1 + ScanIters(nums, free + 1) ELSE 0

\* the condition of the while loop of push
ScanCond(d) == d.lowest_free \in DOMAIN d.nums

\* a loop body that steps over two keys at a time
ScanBodyByTwo(d) == [d EXCEPT !.lowest_free = d.lowest_free + 2]

\* the body of the while loop of push
ScanBody(d) == [d EXCEPT !.lowest_free = d.lowest_free + 1]

\* the two statements of push after the loop
ScanStore(d, value) ==
    [d EXCEPT !.nums = MapInsert(d.nums, d.lowest_free, value),
              !.lowest_free = d.lowest_free + 1]

\* the key push inserts at
PushKey(d) == PushScan(d.nums, d.lowest_free)

\* push that leaves lowest_free on the key it has just filled
PushKeepMark(d, value) ==
    LET free == PushScan(d.nums, d.lowest_free)
    IN  [d EXCEPT !.nums = MapInsert(d.nums, free, value),
                  !.lowest_free = free]

Push(d, value) ==
    LET free == PushScan(d.nums, d.lowest_free)
    IN  [d EXCEPT !.nums = MapInsert(d.nums, free, value),
                  !.lowest_free = free + 1]

----------------------------------------------------------------------------
(* Iteration and equality *)

\* .map(|(&k, v)| (BorrowedKey::Num(k), v))
NumEntries(s) == [i \in 1 .. Len(s) |-> <<Num(s[i][1]), s[i][2]>>]

\* .map(|(k, v)| (BorrowedKey::Str(k), v))
StrEntries(s) == [i \in 1 .. Len(s) |-> <<Str(s[i][1]), s[i][2]>>]

\* .map(|(_, v)| v)
OnlyValues(s) == [i \in 1 .. Len(s) |-> s[i][2]]

\* iter that chains the string entries before the number entries
IterStrsFirst(d) == StrEntries(Strs(d)) \o NumEntries(Nums(d))

Iter(d) == NumEntries(Nums(d)) \o StrEntries(Strs(d))

Values(d) == OnlyValues(Nums(d)) \o OnlyValues(Strs(d))

IntoIter(d) ==
    NumEntries(NumsOrder(d.nums, DOMAIN d.nums))
        \o StrEntries(StrsOrder(d.strs, DOMAIN d.strs))

IntoValues(d) ==
    OnlyValues(NumsOrder(d.nums, DOMAIN d.nums))
        \o OnlyValues(StrsOrder(d.strs, DOMAIN d.strs))

\* equality as #[derive(PartialEq)] on the struct would give it
DictEqDerived(a, b) ==
    /\ a.lowest_free = b.lowest_free
    /\ a.nums = b.nums
    /\ a.strs = b.strs

\* indexing that hands out nothing where the code panics
IndexOrNone(d, key) == [panic |-> FALSE, value |-> Get(d, key)]

\* Index::index: get(index).expect("key not in dict")
Index(d, key) ==
    LET r == Get(d, key)
    IN  IF r = None THEN [panic |-> TRUE, value |-> None]
        ELSE [panic |-> FALSE, value |-> r]

\* Iterator::eq over (BorrowedKey, &V) items
DictEq(a, b) ==
    LET ia == Iter(a)
        ib == Iter(b)
    IN  /\ Len(ia) = Len(ib)
        /\ \A i \in 1 .. Len(ia) :
              KeyEq(ia[i][1], ib[i][1]) /\ ia[i][2] = ib[i][2]

----------------------------------------------------------------------------
(* Debug rendering.  The output is a sequence of bytes.  V is &str as in   *)
(* the tests, so a value prints between double quotes.  debug_tuple("")    *)
(* is the DebugTuple builder of core::fmt with an empty name.              *)

\* Display of u64: the decimal digits
RECURSIVE DisplayNum(_)
DisplayNum(n) ==
    IF n < 10 THEN <<48 + n>> ELSE DisplayNum(n \div 10) \o <<48 + (n % 10)>>

\* Debug of a value
DebugValue(v) == <<34>> \o (IF v = "x" THEN <<120>> ELSE <<121>>) \o <<34>>

\* a renderer that quotes every string key
KeyQuotedAlways(s) == TRUE

\* key.contains(' ')
KeyQuoted(s) == \E i \in 1 .. Len(s) : s[i] = 32

\* Debug of Entry(quoted, key, value)
EntryFmt(quoted, key, value, alternate) ==
    (IF quoted THEN <<34>> ELSE <<>>)
        \o key
        \o (IF quoted THEN <<34>> ELSE <<>>)
        \o (IF alternate THEN <<32, 61, 32>> ELSE <<61>>)
        \o value

\* PadAdapter: four spaces in front of every line
RECURSIVE PadAdapter(_, _)
PadAdapter(text, on_newline) ==
    IF text = <<>> THEN <<>>
    ELSE (IF on_newline THEN <<32, 32, 32, 32>> ELSE <<>>)
             \o <<text[1]>>
             \o PadAdapter(Tail(text), text[1] = 10)

\* DebugTuple::field
TupleField(b, text, alternate) ==
    IF alternate
    THEN [out    |-> b.out \o (IF b.fields = 0 THEN <<40, 10>> ELSE <<>>)
                          \o PadAdapter(text, TRUE) \o <<44, 10>>,
          fields |-> b.fields + 1]
    ELSE [out    |-> b.out \o (IF b.fields = 0 THEN <<40>> ELSE <<44, 32>>)
                          \o text,
          fields |-> b.fields + 1]

\* DebugTuple::finish, for the empty name
TupleFinish(b, alternate) ==
    IF b.fields > 0
    THEN b.out \o (IF b.fields = 1 /\ ~alternate THEN <<44>> ELSE <<>>)
               \o <<41>>
    ELSE b.out

\* the loop over nums()
RECURSIVE NumFields(_, _, _)
NumFields(b, entries, alternate) ==
    IF entries = <<>> THEN b
    ELSE NumFields(TupleField(b, EntryFmt(FALSE, DisplayNum(entries[1][1]),
                                          DebugValue(entries[1][2]),
                                          alternate), alternate),
                   Tail(entries), alternate)

\* the loop over strs()
RECURSIVE StrFields(_, _, _)
StrFields(b, entries, alternate) ==
    IF entries = <<>> THEN b
    ELSE StrFields(TupleField(b, EntryFmt(KeyQuoted(entries[1][1]),
                                          entries[1][1],
                                          DebugValue(entries[1][2]),
                                          alternate), alternate),
                   Tail(entries), alternate)

\* Debug::fmt of Dict; alternate is the {:#?} flag
DebugFmt(d, alternate) ==
    IF IsEmpty(d) THEN <<40, 41>>
    ELSE LET builder == [out |-> <<>>, fields |-> 0]
             b1 == NumFields(builder, Nums(d), alternate)
             b2 == StrFields(b1, Strs(d), alternate)
         IN  TupleFinish(b2, alternate)

----------------------------------------------------------------------------
(* The calls of a program that owns one Dict.  pre is the dictionary       *)
(* before the last call, last records the call and what it returned.       *)

NoCall == [op |-> "new", key |-> NoKey, value |-> None, ret |-> None]

\* true when remove(k) took out an existing key with every lower key taken
FreesLowest(d, key) ==
    /\ key.tag = "Num"
    /\ key.num \in DOMAIN d.nums
    /\ \A j \in 0 .. key.num - 1 : j \in DOMAIN d.nums

\* no push under way, none made so far
NoScan == [pc |-> "idle", iters |-> 0, seen |-> {}, count |-> 0,
           value |-> None]

Init ==
    /\ dict = New
    /\ pre = New
    /\ last = NoCall
    /\ reuse = [stage |-> 0, k |-> 0]
    /\ other = New
    /\ script = <<>>
    /\ done = {}
    /\ scan = NoScan

DoInsert ==
    \E key \in KeySet, value \in ValueSet :
        /\ dict' = Insert(dict, key, value)
        /\ pre' = dict
        /\ last' = [op |-> "insert", key |-> key, value |-> Some(value),
                    ret |-> None]
        /\ reuse' = [stage |-> 0, k |-> 0]
        /\ UNCHANGED <<other, script, done, scan>>

DoRemove ==
    \E key \in KeySet :
        /\ dict' = Remove(dict, key).dict
        /\ pre' = dict
        /\ last' = [op |-> "remove", key |-> key, value |-> None,
                    ret |-> Remove(dict, key).ret]
        /\ reuse' = IF FreesLowest(dict, key)
                    THEN [stage |-> 1, k |-> key.num]
                    ELSE [stage |-> 0, k |-> 0]
        /\ UNCHANGED <<other, script, done, scan>>

DoPush ==
    \E value \in ValueSet :
        /\ PushKey(dict) <= MaxKey
        /\ dict' = Push(dict, value)
        /\ pre' = dict
        /\ last' = [op |-> "push", key |-> NoKey, value |-> Some(value),
                    ret |-> None]
        /\ reuse' = IF reuse.stage \in {1, 2}
                    THEN [reuse EXCEPT !.stage = reuse.stage + 1]
                    ELSE [stage |-> 0, k |-> 0]
        /\ UNCHANGED <<other, script, done, scan>>

ReadOps == {"get", "first", "last", "len", "iter"}

\* the calls that take &self: they return a value and store nothing
DoRead ==
    \E op \in ReadOps :
        /\ dict' = dict
        /\ pre' = dict
        /\ last' = [op |-> op, key |-> NoKey, value |-> None, ret |-> None]
        /\ reuse' = [stage |-> 0, k |-> 0]
        /\ UNCHANGED <<other, script, done, scan>>

Next == DoInsert \/ DoRemove \/ DoPush \/ DoRead

Spec == Init /\ [][Next]_vars

----------------------------------------------------------------------------
(* Two dictionaries built from the same insert calls.  dict takes the      *)
(* calls in the order of script; other takes the same calls one by one in  *)
(* any order, done being the positions of script it has taken so far.      *)

EqKeySet == {Num(n) : n \in 0 .. EqMaxKey} \cup {Str(s) : s \in StrKeys}

EqInsertA ==
    \E key \in EqKeySet, value \in ValueSet :
        /\ done = {}
        /\ Len(script) < MaxLen
        /\ dict' = Insert(dict, key, value)
        /\ script' = Append(script, [key |-> key, value |-> value])
        /\ UNCHANGED <<pre, last, reuse, other, done, scan>>

EqInsertB ==
    \E i \in (1 .. Len(script)) \ done :
        /\ other' = Insert(other, script[i].key, script[i].value)
        /\ done' = done \cup {i}
        /\ UNCHANGED <<dict, pre, last, reuse, script, scan>>

NextEq == EqInsertA \/ EqInsertB

SpecEq == Init /\ [][NextEq]_vars

----------------------------------------------------------------------------
(* One dictionary under insert, remove and push, without the record of the *)
(* last call: the states are the dictionaries a program can hold.          *)

ObsInsert ==
    \E key \in KeySet, value \in ValueSet :
        /\ dict' = Insert(dict, key, value)
        /\ UNCHANGED <<pre, last, reuse, other, script, done, scan>>

ObsRemove ==
    \E key \in KeySet :
        /\ dict' = Remove(dict, key).dict
        /\ UNCHANGED <<pre, last, reuse, other, script, done, scan>>

ObsPush ==
    \E value \in ValueSet :
        /\ PushKey(dict) <= MaxKey
        /\ dict' = Push(dict, value)
        /\ UNCHANGED <<pre, last, reuse, other, script, done, scan>>

NextObs == ObsInsert \/ ObsRemove \/ ObsPush

SpecObs == Init /\ [][NextObs]_vars

----------------------------------------------------------------------------
(* Two dictionaries that each take their own insert, remove and push       *)
(* calls: dict and other range over all pairs of reachable dictionaries.   *)

PairKeySet == {Num(n) : n \in 0 .. PairMaxKey} \cup {Str(<<50>>)}

PairInsert ==
    \E left \in BOOLEAN, key \in PairKeySet, value \in ValueSet :
        /\ dict' = IF left THEN Insert(dict, key, value) ELSE dict
        /\ other' = IF left THEN other ELSE Insert(other, key, value)
        /\ UNCHANGED <<pre, last, reuse, script, done, scan>>

PairRemove ==
    \E left \in BOOLEAN, key \in PairKeySet :
        /\ dict' = IF left THEN Remove(dict, key).dict ELSE dict
        /\ other' = IF left THEN other ELSE Remove(other, key).dict
        /\ UNCHANGED <<pre, last, reuse, script, done, scan>>

PairPush ==
    \E left \in BOOLEAN, value \in ValueSet :
        /\ PushKey(IF left THEN dict ELSE other) <= PairMaxKey
        /\ dict' = IF left THEN Push(dict, value) ELSE dict
        /\ other' = IF left THEN other ELSE Push(other, value)
        /\ UNCHANGED <<pre, last, reuse, script, done, scan>>

NextPair == PairInsert \/ PairRemove \/ PairPush

SpecPair == Init /\ [][NextPair]_vars

----------------------------------------------------------------------------
(* push statement by statement.  insert and remove are single steps; a     *)
(* push is a call, one step per evaluation of the loop condition, and the  *)
(* store.  pre is the dictionary at the call, scan.iters counts the runs   *)
(* of the loop body and scan.seen holds the keys contains_key was asked.   *)
(* push has &mut self, so no other call runs while pc = "scan".  A push    *)
(* may fill the key right above the keys insert draws from.                *)

ScanInsert ==
    \E key \in KeySet, value \in ValueSet :
        /\ scan.pc # "scan"
        /\ dict' = Insert(dict, key, value)
        /\ scan' = NoScan
        /\ pre' = dict
        /\ UNCHANGED <<last, reuse, other, script, done>>

ScanRemove ==
    \E key \in KeySet :
        /\ scan.pc # "scan"
        /\ dict' = Remove(dict, key).dict
        /\ scan' = NoScan
        /\ pre' = dict
        /\ UNCHANGED <<last, reuse, other, script, done>>

PushCall ==
    \E value \in ValueSet :
        /\ scan.pc # "scan"
        /\ PushKey(dict) <= MaxKey + 1
        /\ scan' = [pc |-> "scan", iters |-> 0, seen |-> {}, count |-> 0,
                    value |-> Some(value)]
        /\ pre' = dict
        /\ UNCHANGED <<dict, last, reuse, other, script, done>>

PushLoop ==
    /\ scan.pc = "scan"
    /\ ScanCond(dict)
    /\ dict' = ScanBody(dict)
    /\ scan' = [scan EXCEPT !.iters = scan.iters + 1,
                            !.seen = scan.seen \cup {dict.lowest_free}]
    /\ UNCHANGED <<pre, last, reuse, other, script, done>>

PushStore ==
    /\ scan.pc = "scan"
    /\ ~ScanCond(dict)
    /\ dict' = ScanStore(dict, scan.value[1])
    /\ scan' = [scan EXCEPT !.pc = "done",
                            !.seen = scan.seen \cup {dict.lowest_free}]
    /\ UNCHANGED <<pre, last, reuse, other, script, done>>

NextScan == ScanInsert \/ ScanRemove \/ PushCall \/ PushLoop \/ PushStore

\* a call that has started runs on
SpecScan ==
    Init /\ [][NextScan]_vars /\ WF_vars(PushLoop) /\ WF_vars(PushStore)

----------------------------------------------------------------------------
(* Pure appends: push calls and string inserts only, from new().           *)
(* scan.count is the number of pushes made, scan.iters the runs of the     *)
(* loop body in the last push, scan.value the value it was given.          *)

AppendPush ==
    \E value \in ValueSet :
        /\ scan.count <= MaxKey
        /\ dict' = Push(dict, value)
        /\ pre' = dict
        /\ scan' = [pc |-> "done",
                    iters |-> ScanIters(dict.nums, dict.lowest_free),
                    seen |-> {}, count |-> scan.count + 1,
                    value |-> Some(value)]
        /\ UNCHANGED <<last, reuse, other, script, done>>

AppendStrInsert ==
    \E s \in StrKeys, value \in ValueSet :
        /\ dict' = Insert(dict, Str(s), value)
        /\ pre' = dict
        /\ scan' = [scan EXCEPT !.pc = "idle"]
        /\ UNCHANGED <<last, reuse, other, script, done>>

NextAppend == AppendPush \/ AppendStrInsert

SpecAppend == Init /\ [][NextAppend]_vars

----------------------------------------------------------------------------
(* Properties *)

\* the smallest non-negative integer that is not a number key of d
LowestFreeKey(d) ==
    CHOOSE n \in 0 .. Cardinality(DOMAIN d.nums) :
        /\ n \notin DOMAIN d.nums
        /\ \A j \in 0 .. n - 1 : j \in DOMAIN d.nums

\* C1: push(v) stores v under the smallest non-negative integer that is not
\* a number key at the moment of the call (0 when there is no number key),
\* whatever inserts, removes and pushes came before.
PushUsesLowestFreeKey ==
    last.op = "push" =>
        LET k == LowestFreeKey(pre)
        IN  /\ k \notin DOMAIN pre.nums
            /\ dict.nums = MapInsert(pre.nums, k, last.value[1])
            /\ Get(dict, Num(k)) = last.value
            /\ (DOMAIN pre.nums = {} => k = 0)

\* C1 witness: a push that had to scan past occupied keys above the mark
PushScannedWitness ==
    /\ last.op = "push"
    /\ pre.lowest_free < LowestFreeKey(pre)
    /\ LowestFreeKey(pre) \in DOMAIN dict.nums

\* C2: lowest_free is never above the true lowest free number key: every
\* integer in [0, lowest_free) is a number key.
MarkNeverTooHigh ==
    /\ dict.lowest_free <= LowestFreeKey(dict)
    /\ \A j \in 0 .. dict.lowest_free - 1 : j \in DOMAIN dict.nums

\* C2 witness: after a number insert the mark is strictly below the true
\* lowest free key
MarkTooLowWitness ==
    /\ last.op = "insert"
    /\ last.key.tag = "Num"
    /\ dict.lowest_free < LowestFreeKey(dict)
    /\ dict.lowest_free > 0

\* C3: number keys and string keys never interfere.  A number insert and a
\* string insert on an empty dictionary give two entries, each found under
\* its own key; an insert or remove under one variant never changes what
\* get returns for any key of the other variant.
TwoInsertsOnNew(d, a, b) ==
    \E va \in ValueSet, vb \in ValueSet :
        /\ d = Insert(Insert(New, a, va), b, vb)
        /\ DictLen(d) = 2
        /\ Get(d, a) = Some(va)
        /\ Get(d, b) = Some(vb)

KeySpacesIndependent ==
    /\ (last.op = "insert" /\ DictLen(pre) = 1 /\ Get(pre, last.key) = None
          /\ pre \in {Insert(New, k, v) : k \in KeySet, v \in ValueSet}) =>
            \A k \in KeySet :
                (k.tag # last.key.tag /\ Get(pre, k) # None) =>
                    TwoInsertsOnNew(dict, k, last.key)
    /\ last.op \in {"insert", "remove"} =>
            \A k \in KeySet :
                k.tag # last.key.tag => Get(dict, k) = Get(pre, k)

\* C3 witness: the string key "2" inserted next to the number key 2
NumeralStringWitness ==
    /\ last.op = "insert"
    /\ last.key = Str(<<50>>)
    /\ pre = Insert(New, Num(2), "x")
    /\ Get(dict, Num(2)) = Some("x")
    /\ Get(dict, Str(<<50>>)) = last.value

\* insert 2, push, insert 3, push, push (test_dict_push_skips_already_
\* inserted_keys)
PushSkipsTest ==
    LET d == Push(Push(Insert(Push(Insert(New, Num(2), "2"), "0"),
                              Num(3), "3"), "1"), "4")
    IN  /\ DictLen(d) = 5
        /\ \A k \in 0 .. 4 :
              Get(d, Num(k)) = Some(<<"0", "1", "2", "3", "4">>[k + 1])

\* C4: a push lands on a key that was unoccupied at the call: every entry
\* present before keeps its value and len grows by exactly one.
PushNeverOverwrites ==
    /\ last.op = "push" =>
          /\ PushKey(pre) \notin DOMAIN pre.nums
          /\ \A k \in KeySet : Get(pre, k) # None => Get(dict, k) = Get(pre, k)
          /\ DictLen(dict) = DictLen(pre) + 1
    /\ PushSkipsTest

\* C4 witness: a push into a dictionary whose mark points at an occupied key
PushPastInsertedWitness ==
    /\ last.op = "push"
    /\ pre.lowest_free \in DOMAIN pre.nums
    /\ DictLen(dict) = DictLen(pre) + 1

\* the least number key above k that is free in d
NextFreeAbove(d, k) ==
    CHOOSE n \in k + 1 .. k + 1 + Cardinality(DOMAIN d.nums) :
        /\ n \notin DOMAIN d.nums
        /\ \A j \in k + 1 .. n - 1 : j \in DOMAIN d.nums

\* push x3, remove 1, push, push (test_dict_push_remove_push_reuses_index)
ReuseTest ==
    LET d == Push(Push(Remove(Push(Push(Push(New, "0"), "1"), "2"),
                              Num(1)).dict, "a"), "3")
    IN  /\ DictLen(d) = 4
        /\ \A k \in 0 .. 3 :
              Get(d, Num(k)) = Some(<<"0", "a", "2", "3">>[k + 1])

\* C5: when remove(k) takes out an existing number key k below which every
\* key is occupied, the push that follows stores its value at k and the
\* push after that at the lowest free key above k.
RemoveThenPushReuses ==
    /\ reuse.stage = 2 =>
          /\ last.op = "push"
          /\ reuse.k \notin DOMAIN pre.nums
          /\ dict.nums = MapInsert(pre.nums, reuse.k, last.value[1])
    /\ reuse.stage = 3 =>
          /\ last.op = "push"
          /\ reuse.k \in DOMAIN pre.nums
          /\ dict.nums = MapInsert(pre.nums, NextFreeAbove(pre, reuse.k),
                                    last.value[1])
    /\ ReuseTest

\* C5 witness: the second push after removing a key that had higher keys
\* occupied, so that it has to skip them
ReuseSecondPushWitness ==
    /\ reuse.stage = 3
    /\ reuse.k + 1 \in DOMAIN pre.nums
    /\ NextFreeAbove(pre, reuse.k) \in DOMAIN dict.nums

\* C6: remove of a present key returns the value most recently stored under
\* it and get is absent afterwards; remove of an absent key returns absence
\* and leaves len and the entries of both maps unchanged.
RemoveReturnsStored ==
    /\ (last.op = "remove" /\ Get(pre, last.key) # None) =>
          /\ last.ret = Get(pre, last.key)
          /\ Get(dict, last.key) = None
    /\ (last.op = "remove" /\ Get(pre, last.key) = None) =>
          /\ last.ret = None
          /\ DictLen(dict) = DictLen(pre)
          /\ dict.nums = pre.nums
          /\ dict.strs = pre.strs
    /\ \A k \in KeySet, v \in ValueSet :
          /\ Remove(Insert(dict, k, v), k).ret = Some(v)
          /\ Get(Remove(Insert(dict, k, v), k).dict, k) = None
    /\ \A v \in ValueSet :
          Remove(Push(dict, v), Num(PushKey(dict))).ret = Some(v)

\* C6 witness: a present string key was removed and its value returned
RemovePresentWitness ==
    /\ last.op = "remove"
    /\ last.key.tag = "Str"
    /\ last.ret = Some("y")
    /\ Get(dict, last.key) = None
    /\ DictLen(dict) = DictLen(pre) - 1

\* no key of the calls occurs with two different values
NoConflictingPairs(sc) ==
    \A i, j \in 1 .. Len(sc) :
        KeyEq(sc[i].key, sc[j].key) => sc[i].value = sc[j].value

AllTaken == script # <<>> /\ done = 1 .. Len(script)

\* C7 as stated: the same insert calls in any two orders give equal
\* dictionaries.
InsertOrderIrrelevant == AllTaken => DictEq(dict, other)

\* C7 amended: the same insert calls, in which no key occurs with two
\* different values, give equal dictionaries in any two orders.
InsertOrderIrrelevantDistinct ==
    (AllTaken /\ NoConflictingPairs(script)) => DictEq(dict, other)

\* C7 witness: the two orders left different marks behind and the
\* dictionaries are equal all the same
EqualWithDifferentMarksWitness ==
    /\ AllTaken
    /\ NoConflictingPairs(script)
    /\ Len(script) = MaxLen
    /\ dict.lowest_free # other.lowest_free
    /\ dict.strs # EmptyMap
    /\ DictEq(dict, other)

StrictlyAscendingNums(s) ==
    \A i \in 1 .. Len(s) - 1 : s[i][1].num < s[i + 1][1].num

StrictlyAscendingStrs(s) ==
    \A i \in 1 .. Len(s) - 1 : StrLess(s[i][1].str, s[i + 1][1].str)

\* C8: iter yields every entry exactly once, the number entries first in
\* strictly ascending key order, then the string entries in strictly
\* ascending lexicographic key order; values, into_iter and into_values
\* follow the same order.
IterOrdered ==
    LET it == Iter(dict)
        n  == Cardinality(DOMAIN dict.nums)
    IN  /\ Len(it) = DictLen(dict)
        /\ \A i \in 1 .. Len(it) :
              /\ it[i][1].tag = (IF i <= n THEN "Num" ELSE "Str")
              /\ Get(dict, it[i][1]) = Some(it[i][2])
        /\ \A k \in KeySet :
              Get(dict, k) # None =>
                  Cardinality({i \in 1 .. Len(it) : KeyEq(it[i][1], k)}) = 1
        /\ StrictlyAscendingNums(SubSeq(it, 1, n))
        /\ StrictlyAscendingStrs(SubSeq(it, n + 1, Len(it)))
        /\ Values(dict) = [i \in 1 .. Len(it) |-> it[i][2]]
        /\ IntoIter(dict) = it
        /\ IntoValues(dict) = Values(dict)

\* C8 witness: number and string entries, the last call having put a key in
\* front of keys that were there before
IterOutOfOrderInsertWitness ==
    /\ last.op = "insert"
    /\ last.key = Str(<<49, 48>>)
    /\ Get(pre, last.key) = None
    /\ Cardinality(DOMAIN dict.strs) = 3
    /\ Cardinality(DOMAIN dict.nums) >= 2
    /\ Iter(dict)[Cardinality(DOMAIN dict.nums) + 1][1] = last.key

\* C9: first and last are the entries with the lowest and the highest
\* number key, absent exactly when there is no number entry; string inserts
\* and removes never change them.
FirstLastNumeric ==
    LET K == DOMAIN dict.nums
    IN  /\ (K = {}) <=> (First(dict) = None)
        /\ (K = {}) <=> (Last(dict) = None)
        /\ K # {} =>
              /\ \E k \in K : /\ \A j \in K : k <= j
                               /\ First(dict) = Some(<<k, dict.nums[k]>>)
              /\ \E k \in K : /\ \A j \in K : j <= k
                               /\ Last(dict) = Some(<<k, dict.nums[k]>>)
        /\ (last.op \in {"insert", "remove"} /\ last.key.tag = "Str") =>
              /\ First(dict) = First(pre)
              /\ Last(dict) = Last(pre)

\* C9 witness: a string insert next to number entries with different first
\* and last
FirstLastWitness ==
    /\ last.op = "insert"
    /\ last.key.tag = "Str"
    /\ First(dict) # None
    /\ First(dict) # Last(dict)
    /\ First(dict)[1][1] > 0

\* C10: insert on a present key replaces the value and leaves len and every
\* other entry unchanged; insert on an absent key adds exactly one entry.
InsertReplaces ==
    last.op = "insert" =>
        /\ Get(dict, last.key) = last.value
        /\ \A k \in KeySet :
              ~KeyEq(k, last.key) => Get(dict, k) = Get(pre, k)
        /\ Get(pre, last.key) # None => DictLen(dict) = DictLen(pre)
        /\ Get(pre, last.key) = None => DictLen(dict) = DictLen(pre) + 1

\* C10 witness: an insert that replaced a different value
InsertOverwriteWitness ==
    /\ last.op = "insert"
    /\ Get(pre, last.key) # None
    /\ Get(pre, last.key) # last.value
    /\ Get(dict, last.key) = last.value
    /\ DictLen(dict) = DictLen(pre)

PresentKeys(d) == {k \in KeySet : Get(d, k) # None}

\* C11: len is the number of number entries plus the number of string
\* entries, is_empty holds exactly when len is 0, and new() has no entry
\* and mark 0.
LenCountsEntries ==
    /\ DictLen(dict) = Cardinality(PresentKeys(dict))
    /\ DictLen(dict) = Len(Nums(dict)) + Len(Strs(dict))
    /\ IsEmpty(dict) <=> (DictLen(dict) = 0)
    /\ IsEmpty(dict) <=> (PresentKeys(dict) = {})
    /\ DictLen(New) = 0
    /\ IsEmpty(New)
    /\ New.lowest_free = 0
    /\ PresentKeys(New) = {}

\* C11 witness: number and string entries together
LenBothKindsWitness ==
    /\ DictLen(dict) = 4
    /\ Cardinality(DOMAIN dict.nums) = 2
    /\ Cardinality(DOMAIN dict.strs) = 2
    /\ ~IsEmpty(dict)

\* C12: dict[key] panics exactly when key is absent and gives the value of
\* get(key) when key is present; get never fails, it returns None for a
\* missing key.
IndexPanicsIffAbsent ==
    \A k \in KeySet :
        LET present == IF k.tag = "Num" THEN k.num \in DOMAIN dict.nums
                       ELSE k.str \in DOMAIN dict.strs
        IN  /\ Index(dict, k).panic <=> ~present
            /\ present => Index(dict, k).value = Get(dict, k)
            /\ present => Get(dict, k) \in {Some(v) : v \in ValueSet}
            /\ ~present => Get(dict, k) = None

\* C12 witness: a dictionary where indexing panics for one key of each
\* variant and succeeds for another
IndexBothOutcomesWitness ==
    /\ Index(dict, Num(0)).panic
    /\ ~Index(dict, Num(1)).panic
    /\ Index(dict, Str(<<50>>)).panic
    /\ Index(dict, Str(<<49, 48>>)) = [panic |-> FALSE, value |-> Some("y")]

\* key, separator and value of one item of iter
ItemText(e, alternate) ==
    LET k      == e[1]
        quoted == k.tag = "Str" /\ 32 \in {k.str[i] : i \in 1 .. Len(k.str)}
        name   == IF k.tag = "Num" THEN DisplayNum(k.num) ELSE k.str
    IN  (IF quoted THEN <<34>> \o name \o <<34>> ELSE name)
            \o (IF alternate THEN <<32, 61, 32>> ELSE <<61>>)
            \o DebugValue(e[2])

\* the items of it from position i on, joined by ", "
RECURSIVE JoinItems(_, _, _)
JoinItems(it, i, alternate) ==
    IF i > Len(it) THEN <<>>
    ELSE (IF i > 1 THEN <<44, 32>> ELSE <<>>)
             \o ItemText(it[i], alternate)
             \o JoinItems(it, i + 1, alternate)

\* the items of it from position i on, one per line
RECURSIVE LineItems(_, _)
LineItems(it, i) ==
    IF i > Len(it) THEN <<>>
    ELSE <<32, 32, 32, 32>> \o ItemText(it[i], TRUE) \o <<44, 10>>
             \o LineItems(it, i + 1)

\* C13 as stated: in both modes the rendering is "(", the entries in
\* iteration order as key=value (" = " in alternate mode) joined by ", ",
\* then ")"; number keys bare, string keys quoted exactly when they hold a
\* space; "()" for the empty dictionary.
DebugJoinedByComma ==
    \A alternate \in BOOLEAN :
        DebugFmt(dict, alternate)
            = <<40>> \o JoinItems(Iter(dict), 1, alternate) \o <<41>>

\* C13 amended: compact mode is "(", the entries joined by ", ", a "," when
\* there is exactly one entry, then ")"; alternate mode is "(" and a line
\* break, every entry on a line of its own behind four spaces and followed
\* by ",", then ")"; the empty dictionary is "()" in both modes.  Keys,
\* quoting and the "=" / " = " separator are as stated.
DebugLayout ==
    LET it == Iter(dict)
    IN  /\ DebugFmt(dict, FALSE)
              = <<40>> \o JoinItems(it, 1, FALSE)
                       \o (IF Len(it) = 1 THEN <<44>> ELSE <<>>) \o <<41>>
        /\ DebugFmt(dict, TRUE)
              = IF it = <<>> THEN <<40, 41>>
                ELSE <<40, 10>> \o LineItems(it, 1) \o <<41>>

\* C13 witness: the dictionary 1 -> x, "2" -> y, "a b" -> x renders as
\* (1="x", 2="y", "a b"="x")
DebugMixedWitness ==
    /\ DOMAIN dict.nums = {1}
    /\ DOMAIN dict.strs = {<<50>>, <<97, 32, 98>>}
    /\ DebugFmt(dict, FALSE)
          = <<40, 49, 61, 34, 120, 34, 44, 32,
              50, 61, 34, 121, 34, 44, 32,
              34, 97, 32, 98, 34, 61, 34, 120, 34, 41>>

\* C14: two reachable dictionaries with the same entries, whatever their
\* marks, stay with the same entries under the same insert, remove or push,
\* and remove returns the same value; push behaves as on a map without a
\* mark where it inserts at the least free number key.
MarkNotObservable ==
    DictEq(dict, other) =>
        /\ \A key \in PairKeySet, value \in ValueSet :
              DictEq(Insert(dict, key, value), Insert(other, key, value))
        /\ \A key \in PairKeySet :
              /\ Remove(dict, key).ret = Remove(other, key).ret
              /\ DictEq(Remove(dict, key).dict, Remove(other, key).dict)
        /\ \A value \in ValueSet :
              /\ DictEq(Push(dict, value), Push(other, value))
              /\ Push(dict, value).nums
                    = MapInsert(dict.nums, LowestFreeKey(dict), value)
              /\ Push(dict, value).strs = dict.strs

\* C14 witness: the same entries under different marks, the lower mark
\* pointing at an occupied key
SameEntriesOtherMarkWitness ==
    /\ DictEq(dict, other)
    /\ dict.lowest_free < other.lowest_free
    /\ dict.lowest_free \in DOMAIN dict.nums
    /\ dict.strs # EmptyMap
    /\ PushKey(dict) = PushKey(other)

\* C15 as stated: once a call has completed, lowest_free is not a number
\* key.
MarkNotOccupied == dict.lowest_free \notin DOMAIN dict.nums

\* C15 amended: no free number key lies below lowest_free, so the first
\* free key at or above it is the lowest free key; lowest_free itself is
\* unoccupied after new() and after a remove(k) with k at or below the mark,
\* and may be occupied otherwise.
MarkNeverSkipsFreeKey ==
    /\ PushKey(dict) \notin DOMAIN dict.nums
    /\ PushKey(dict) = LowestFreeKey(dict)
    /\ (\/ last.op = "new"
        \/ /\ last.op = "remove"
           /\ last.key.tag = "Num"
           /\ last.key.num <= pre.lowest_free)
          => dict.lowest_free \notin DOMAIN dict.nums

\* C15 witness: after insert(0) the mark sits on an occupied key, with
\* every key below it occupied and the next free key above it
MarkOnOccupiedKeyWitness ==
    /\ last.op = "insert"
    /\ last.key = Num(0)
    /\ dict.lowest_free = 1
    /\ dict.lowest_free \in DOMAIN dict.nums
    /\ PushKey(dict) > dict.lowest_free
    /\ PushKey(dict) = LowestFreeKey(dict)

\* C16: insert with a number key moves the mark in one case only: a key
\* equal to the mark advances it by exactly one, also when the key was
\* occupied already; a key below or above the mark leaves it unchanged.
InsertMarkStep ==
    (last.op = "insert" /\ last.key.tag = "Num") =>
        /\ last.key.num = pre.lowest_free
              => dict.lowest_free = pre.lowest_free + 1
        /\ last.key.num # pre.lowest_free
              => dict.lowest_free = pre.lowest_free

\* C16 witness: an insert at the mark on a key that was occupied, with the
\* next key occupied too, advanced the mark by one and no further
InsertAtOccupiedMarkWitness ==
    /\ last.op = "insert"
    /\ last.key.tag = "Num"
    /\ last.key.num = pre.lowest_free
    /\ last.key.num \in DOMAIN pre.nums
    /\ dict.lowest_free = pre.lowest_free + 1
    /\ dict.lowest_free \in DOMAIN dict.nums

\* C17: remove with a number key k sets the mark to min(mark, k), present
\* or not, and never raises it; after push the mark is the key push
\* inserted at plus one.
RemovePushMarkStep ==
    /\ (last.op = "remove" /\ last.key.tag = "Num") =>
          /\ dict.lowest_free <= pre.lowest_free
          /\ dict.lowest_free <= last.key.num
          /\ dict.lowest_free \in {pre.lowest_free, last.key.num}
    /\ last.op = "push" =>
          \E k \in (DOMAIN dict.nums) \ (DOMAIN pre.nums) :
              /\ DOMAIN dict.nums = (DOMAIN pre.nums) \cup {k}
              /\ dict.lowest_free = k + 1

\* C17 witness: a remove of an absent number key left the mark, which was
\* below the key, unchanged
RemoveAbsentKeepsMarkWitness ==
    /\ last.op = "remove"
    /\ last.key.tag = "Num"
    /\ last.ret = None
    /\ 0 < pre.lowest_free
    /\ pre.lowest_free < last.key.num
    /\ dict.lowest_free = pre.lowest_free

\* C18: insert and remove with a string key leave lowest_free and the
\* number entries unchanged; insert, remove and push on number keys leave
\* the string entries unchanged; get, first, last, len and iteration change
\* nothing.
FrameOfCalls ==
    /\ (last.op \in {"insert", "remove"} /\ last.key.tag = "Str") =>
          /\ dict.lowest_free = pre.lowest_free
          /\ dict.nums = pre.nums
    /\ (\/ last.op = "push"
        \/ last.op \in {"insert", "remove"} /\ last.key.tag = "Num")
          => dict.strs = pre.strs
    /\ last.op \in ReadOps => dict = pre

\* C18 witness: removing the present string key "2" from a dictionary whose
\* mark is 2 left the mark and the number entries alone
StringRemoveFrameWitness ==
    /\ last.op = "remove"
    /\ last.key = Str(<<50>>)
    /\ last.ret # None
    /\ pre.lowest_free = 2
    /\ dict.lowest_free = 2
    /\ dict.nums = pre.nums
    /\ dict.strs # pre.strs

\* the number of consecutive occupied number keys of d from its mark on
RunAtMark(d) ==
    CHOOSE k \in 0 .. Cardinality(DOMAIN d.nums) :
        /\ \A j \in 0 .. k - 1 : d.lowest_free + j \in DOMAIN d.nums
        /\ d.lowest_free + k \notin DOMAIN d.nums

PushScanBounded ==
    /\ scan.pc \in {"scan", "done"} =>
          /\ scan.iters <= RunAtMark(pre)
          /\ \A j \in scan.seen :
                pre.lowest_free <= j /\ j <= pre.lowest_free + RunAtMark(pre)
    /\ scan.pc = "done" =>
          /\ scan.iters = RunAtMark(pre)
          /\ scan.iters = ScanIters(pre.nums, pre.lowest_free)
          /\ dict = Push(pre, scan.value[1])

\* C19: push always terminates; its loop body runs k times, k being the
\* number of consecutive occupied number keys from the mark on at the call
\* (0 when the mark is unoccupied), and it never asks for a key beyond the
\* first unoccupied key at or above the mark.
PushTerminatesAfterRun ==
    /\ []PushScanBounded
    /\ (scan.pc = "scan") ~> (scan.pc = "done")

\* C19 witness: a push returned after its loop body ran twice
PushScannedTwiceWitness ==
    /\ scan.pc = "done"
    /\ scan.iters = 2
    /\ RunAtMark(pre) = 2
    /\ scan.seen = pre.lowest_free .. pre.lowest_free + 2

\* C20: with push calls and string inserts only, the i-th push (from 0)
\* stores its value at number key i without running its loop body, and
\* after n pushes the number keys are 0 .. n-1 and the mark is n.
PureAppendsAreSequential ==
    /\ DOMAIN dict.nums = 0 .. scan.count - 1
    /\ dict.lowest_free = scan.count
    /\ scan.iters = 0
    /\ scan.pc = "done" =>
          /\ scan.count - 1 \notin DOMAIN pre.nums
          /\ dict.nums = MapInsert(pre.nums, scan.count - 1, scan.value[1])
          /\ Get(dict, Num(scan.count - 1)) = scan.value

\* C20 witness: the third push, after string inserts that include the
\* numeral-like key "2"
ThirdAppendWitness ==
    /\ scan.pc = "done"
    /\ scan.count = 3
    /\ Get(pre, Str(<<50>>)) # None
    /\ Get(dict, Num(2)) = scan.value
    /\ dict.lowest_free = 3

====
